---- MODULE Spec2Model ----
(***************************************************************************)
(* Model of the Apple Notes reader of LEANN:                               *)
(*   apps/notes_data/LEANN_notes_reader.py  (NotesReader)                  *)
(*   apps/notes_rag.py                      (NotesRAG.load_data)           *)
(*                                                                         *)
(* Text is a sequence of one-character strings.  SQLite values are tagged  *)
(* records, because the code's behaviour depends on the Python type a      *)
(* column value arrives with (None, int/float, str, bytes).                *)
(***************************************************************************)
EXTENDS Integers, Sequences, FiniteSets, TLC

\* ------------------------------------------------------------------------
\* Bounds of the model
\* ------------------------------------------------------------------------
\* Number of fragments concatenated into an input of _clean_html_content.
MaxPieces == 3

\* Number of notes in a database.
MaxNotes == 2

\* ------------------------------------------------------------------------
\* Text helpers
\* ------------------------------------------------------------------------
Max(S) == CHOOSE x \in S : \A y \in S : y <= x
Min(S) == CHOOSE x \in S : \A y \in S : x <= y

\* The characters Python's \s and str.strip() treat as whitespace, within
\* the alphabet of the model.
Whitespace == {" ", "\t", "\n"}

\* ASCII case folding: re.IGNORECASE in _clean_html_content, and the
\* comparison SQLite's LIKE makes by default.
UpperLetters ==
    << "A","B","C","D","E","F","G","H","I","J","K","L","M",
       "N","O","P","Q","R","S","T","U","V","W","X","Y","Z" >>
LowerLetters ==
    << "a","b","c","d","e","f","g","h","i","j","k","l","m",
       "n","o","p","q","r","s","t","u","v","w","x","y","z" >>

Lower(c) ==
    IF \E k \in 1..26 : UpperLetters[k] = c
    THEN LowerLetters[CHOOSE k \in 1..26 : UpperLetters[k] = c]
    ELSE c

LowerSeq(s) == [k \in 1..Len(s) |-> Lower(s[k])]

\* s[i..] starts with p.
HasPrefixAt(s, i, p) ==
    /\ i + Len(p) - 1 <= Len(s)
    /\ \A k \in 1..Len(p) : s[i + k - 1] = p[k]

\* Index of the first occurrence of character c in s at or after i, 0 if none.
FirstAt(s, i, c) ==
    LET hits == {j \in i..Len(s) : s[j] = c}
    IN  IF hits = {} THEN 0 ELSE Min(hits)

\* Last index of the maximal run of characters of s, starting at i, that
\* satisfy "not in Excl"; i - 1 when the run is empty.
RunEndNotIn(s, i, Excl) ==
    Max({j \in (i - 1)..Len(s) : \A k \in i..j : s[k] \notin Excl})

\* Last index of the maximal run of characters of Incl starting at i.
RunEndIn(s, i, Incl) ==
    Max({j \in (i - 1)..Len(s) : \A k \in i..j : s[k] \in Incl})

\* ------------------------------------------------------------------------
\* html.unescape (CPython html/__init__.py), on the model's alphabet:
\* the letters a m p l t b, & ; < > / and whitespace.  '#' is not in the
\* alphabet, so only named character references occur.
\* ------------------------------------------------------------------------
\* html.entities.html5 restricted to names spelled with the letters above.
\* Code points other than & and < are written as one-character tokens.
EntityNames ==
    { <<"a","m","p">>, <<"a","m","p",";">>, <<"l","t">>, <<"l","t",";">>,
      <<"a","p",";">>, <<"l","a","p",";">>, <<"l","a","t",";">>,
      <<"l","l",";">>, <<"m","a","l","t",";">>, <<"m","a","p",";">>,
      <<"m","p",";">>, <<"p","m",";">> }

EntityValue(name) ==
    CASE name = <<"a","m","p">>         -> <<"&">>
      [] name = <<"a","m","p",";">>     -> <<"&">>
      [] name = <<"l","t">>             -> <<"<">>
      [] name = <<"l","t",";">>         -> <<"<">>
      [] name = <<"a","p",";">>         -> <<"U+2248">>
      [] name = <<"l","a","p",";">>     -> <<"U+2A85">>
      [] name = <<"l","a","t",";">>     -> <<"U+2AAB">>
      [] name = <<"l","l",";">>         -> <<"U+226A">>
      [] name = <<"m","a","l","t",";">> -> <<"U+2720">>
      [] name = <<"m","a","p",";">>     -> <<"U+21A6">>
      [] name = <<"m","p",";">>         -> <<"U+2213">>
      [] name = <<"p","m",";">>         -> <<"U+00B1">>

\* Characters that end the name of a character reference:
\* the class [^\t\n\f <&#;] of html._charref.
CharrefStop == {"\t", "\n", "\f", " ", "<", "&", "#", ";"}

\* html._replace_charref for a named reference s (the text after '&').
ReplaceCharref(s) ==
    IF s \in EntityNames THEN EntityValue(s)
    ELSE LET xs == {x \in 2..(Len(s) - 1) : SubSeq(s, 1, x) \in EntityNames}
         IN  IF xs # {}
             THEN EntityValue(SubSeq(s, 1, Max(xs))) \o SubSeq(s, Max(xs) + 1, Len(s))
             ELSE <<"&">> \o s

RECURSIVE UnescapeFrom(_, _)
UnescapeFrom(s, i) ==
    IF i > Len(s) THEN <<>>
    ELSE IF s[i] # "&" THEN <<s[i]>> \o UnescapeFrom(s, i + 1)
    ELSE LET e  == RunEndNotIn(s, i + 1, CharrefStop)
             e2 == IF e < Len(s) /\ s[e + 1] = ";" THEN e + 1 ELSE e
         IN  IF e < i + 1
             THEN <<"&">> \o UnescapeFrom(s, i + 1)
             ELSE ReplaceCharref(SubSeq(s, i + 1, e2)) \o UnescapeFrom(s, e2 + 1)

Unescape(s) == UnescapeFrom(s, 1)

\* ------------------------------------------------------------------------
\* NotesReader._clean_html_content
\* ------------------------------------------------------------------------
\* (div|p|br|h[1-6]|li)
BlockNames ==
    { <<"d","i","v">>, <<"p">>, <<"b","r">>, <<"l","i">>,
      <<"h","1">>, <<"h","2">>, <<"h","3">>, <<"h","4">>, <<"h","5">>, <<"h","6">> }

\* End index of a match of </(div|p|br|h[1-6]|li)> at i, 0 if none.
CloseBlockMatch(s, i) ==
    LET low  == LowerSeq(s)
        ends == {i + Len(n) + 2 : n \in
                   {m \in BlockNames : HasPrefixAt(low, i, <<"<", "/">> \o m \o <<">">>)}}
    IN  IF ends = {} THEN 0 ELSE Min(ends)

\* End index of a match of <(div|p|br|h[1-6]|li)[^>]*> at i, 0 if none.
OpenBlockMatch(s, i) ==
    LET low == LowerSeq(s)
    IN  IF /\ i <= Len(s)
           /\ s[i] = "<"
           /\ \E n \in BlockNames : HasPrefixAt(low, i + 1, n)
        THEN FirstAt(s, i + 1, ">")
        ELSE 0

\* End index of a match of <[^>]+> at i, 0 if none.
AnyTagMatch(s, i) ==
    IF i < Len(s) /\ s[i] = "<" /\ s[i + 1] # ">"
    THEN FirstAt(s, i + 1, ">")
    ELSE 0

\* End index of a match of \n\s*\n at i, 0 if none (\s* is greedy).
BlankLinesMatch(s, i) ==
    IF i <= Len(s) /\ s[i] = "\n"
    THEN LET e    == RunEndIn(s, i + 1, Whitespace)
             nls  == {j \in (i + 1)..e : s[j] = "\n"}
         IN  IF nls = {} THEN 0 ELSE Max(nls)
    ELSE 0

\* End index of a match of [ \t]+ at i, 0 if none.
SpacesMatch(s, i) ==
    LET e == RunEndIn(s, i, {" ", "\t"})
    IN  IF e >= i THEN e ELSE 0

\* re.sub for the five patterns: leftmost, non-overlapping matches are
\* replaced by repl, scanning resumes after each match.
RECURSIVE SubFrom(_, _, _, _)
SubFrom(pat, repl, s, i) ==
    IF i > Len(s) THEN <<>>
    ELSE LET e == CASE pat = "closeblock" -> CloseBlockMatch(s, i)
                    [] pat = "openblock"  -> OpenBlockMatch(s, i)
                    [] pat = "anytag"     -> AnyTagMatch(s, i)
                    [] pat = "blanklines" -> BlankLinesMatch(s, i)
                    [] pat = "spaces"     -> SpacesMatch(s, i)
         IN  IF e = 0
             THEN <<s[i]>> \o SubFrom(pat, repl, s, i + 1)
             ELSE repl \o SubFrom(pat, repl, s, e + 1)

ReSub(pat, repl, s) == SubFrom(pat, repl, s, 1)

\* str.strip()
Strip(s) ==
    LET keep == {k \in 1..Len(s) : s[k] \notin Whitespace}
    IN  IF keep = {} THEN <<>> ELSE SubSeq(s, Min(keep), Max(keep))

\* Lines 73-74: block-level tags become a newline.
ReplaceBlockTags(s) ==
    ReSub("openblock", <<"\n">>, ReSub("closeblock", <<"\n">>, s))

\* Line 77: every remaining tag is dropped.
RemoveTags(s) == ReSub("anytag", <<>>, s)

\* Lines 80-82: blank-line runs, then space runs, then strip.
CleanWhitespace(s) ==
    Strip(ReSub("spaces", <<" ">>, ReSub("blanklines", <<"\n", "\n">>, s)))

\* A variant that decodes character references after the tags are stripped.
CleanHtmlContentUnescapeLast(html_content) ==
    IF html_content = <<>> THEN <<>>
    ELSE CleanWhitespace(Unescape(RemoveTags(ReplaceBlockTags(html_content))))

\* Lines 65-84.
CleanHtmlContent(html_content) ==
    IF html_content = <<>> THEN <<>>
    ELSE CleanWhitespace(RemoveTags(ReplaceBlockTags(Unescape(html_content))))

\* ------------------------------------------------------------------------
\* Decimal text of integers: str(note_id), f"Note {note_id}", strftime
\* ------------------------------------------------------------------------
Digits == <<"0", "1", "2", "3", "4", "5", "6", "7", "8", "9">>

RECURSIVE NatStr(_)
NatStr(n) ==
    IF n < 10 THEN <<Digits[n + 1]>>
    ELSE NatStr(n \div 10) \o <<Digits[(n % 10) + 1]>>

\* str(n) of a Python int.
IntStr(n) == IF n < 0 THEN <<"-">> \o NatStr(-n) ELSE NatStr(n)

\* A field of strftime, zero-padded to width w.
RECURSIVE Pad(_, _)
Pad(s, w) == IF Len(s) >= w THEN s ELSE Pad(<<"0">> \o s, w)

\* ------------------------------------------------------------------------
\* Calendar arithmetic of datetime: proleptic Gregorian dates and days
\* relative to 1970-01-01.
\* ------------------------------------------------------------------------
DaysFromCivil(y, m, d) ==
    LET yy  == IF m <= 2 THEN y - 1 ELSE y
        era == yy \div 400
        yoe == yy - era * 400
        mp  == IF m > 2 THEN m - 3 ELSE m + 9
        doy == (153 * mp + 2) \div 5 + d - 1
        doe == yoe * 365 + yoe \div 4 - yoe \div 100 + doy
    IN  era * 146097 + doe - 719468

CivilFromDays(z) ==
    LET zz  == z + 719468
        era == zz \div 146097
        doe == zz - era * 146097
        yoe == (doe - doe \div 1460 + doe \div 36524 - doe \div 146096) \div 365
        doy == doe - (365 * yoe + yoe \div 4 - yoe \div 100)
        mp  == (5 * doy + 2) \div 153
        d   == doy - (153 * mp + 2) \div 5 + 1
        m   == IF mp < 10 THEN mp + 3 ELSE mp - 9
        y   == yoe + era * 400 + (IF m <= 2 THEN 1 ELSE 0)
    IN  [year |-> y, month |-> m, day |-> d]

\* ------------------------------------------------------------------------
\* Values read from SQLite, as Python receives them
\* ------------------------------------------------------------------------
\* A column value: NULL (None), TEXT (str) or BLOB (bytes).  A byte of a
\* BLOB is the ASCII character it encodes, or "0xFF", a byte that is not
\* valid UTF-8.
NullV == [t |-> "null", v |-> <<>>]
TextV(s) == [t |-> "text", v |-> s]
BlobV(b) == [t |-> "blob", v |-> b]

\* Python truthiness of a column value: None, "" and b"" are falsy.
Truthy(x) == x.t # "null" /\ x.v # <<>>

\* A timestamp column value.  "num" is the int or float d * 86400 + s
\* seconds, "huge" a REAL whose magnitude exceeds the range of time_t
\* (1e20, Inf), "text" a non-empty str.
NullTs == [t |-> "null", d |-> 0, s |-> 0]
NumTs(d, s) == [t |-> "num", d |-> d, s |-> s]
HugeTs == [t |-> "huge", d |-> 0, s |-> 0]
TextTs == [t |-> "text", d |-> 0, s |-> 0]

\* The literals of the reader.
UnknownText     == <<"U", "n", "k", "n", "o", "w", "n">>
InvalidDateText == <<"I", "n", "v", "a", "l", "i", "d", " ", "D", "a", "t", "e">>
NotePrefix      == <<"N", "o", "t", "e", " ">>
IdPrefix        == <<"n", "o", "t", "e", "_">>
TitlePrefix     == <<"T", "i", "t", "l", "e", ":", " ">>
DefaultFolder   == <<"N", "o", "t", "e", "s">>
SourceText      == <<"A", "p", "p", "l", "e", " ", "N", "o", "t", "e", "s">>

\* ------------------------------------------------------------------------
\* NotesReader._format_timestamp
\* ------------------------------------------------------------------------
\* (core_data_epoch - unix_epoch).total_seconds(), in whole days.
CoreDataOffsetDays == DaysFromCivil(2001, 1, 1) - DaysFromCivil(1970, 1, 1)

\* dt.strftime("%Y-%m-%d %H:%M:%S") for years 1000..9999.
Strftime(date, secs) ==
    Pad(NatStr(date.year), 4) \o <<"-">> \o Pad(NatStr(date.month), 2) \o <<"-">>
      \o Pad(NatStr(date.day), 2) \o <<" ">>
      \o Pad(NatStr(secs \div 3600), 2) \o <<":">>
      \o Pad(NatStr((secs % 3600) \div 60), 2) \o <<":">>
      \o Pad(NatStr(secs % 60), 2)

\* The result of a call that may raise: exc is "" when it returns.
Returns(x) == [exc |-> "", val |-> x]
Raises(e)  == [exc |-> e, val |-> <<>>]

\* tz is the UTC offset of local time, in seconds.
FormatTimestamp(timestamp, tz) ==
    IF timestamp.t = "null" \/ (timestamp.t = "num" /\ timestamp.d = 0 /\ timestamp.s = 0)
    THEN Returns(UnknownText)
    ELSE IF timestamp.t = "text" THEN Raises("TypeError")
    ELSE IF timestamp.t = "huge" THEN Raises("OverflowError")
    ELSE LET local == timestamp.s + tz
             days  == timestamp.d + CoreDataOffsetDays + (local \div 86400)
             date  == CivilFromDays(days)
         IN  IF date.year < 1 \/ date.year > 9999
             THEN Returns(InvalidDateText)
             ELSE Returns(Strftime(date, local % 86400))

\* ------------------------------------------------------------------------
\* The database: the three tables the query of load_data reads
\* ------------------------------------------------------------------------
\* ZICNOTEDATA row:  [Z_PK, ZTITLE, ZSNIPPET, ZCREATIONDATE,
\*                    ZMODIFICATIONDATE, ZFOLDER, ZMARKEDFORDELETION]
\* ZICNOTEBODY row:  [Z_PK, ZNOTE, ZDATA]
\* ZICFOLDER row:    [Z_PK, ZTITLE]
\* Primary keys are positive; a foreign key of 0 stands for NULL.
NoBody == [Z_PK |-> 0, ZNOTE |-> 0, ZDATA |-> NullV]

\* LEFT JOIN ZICFOLDER f ON n.ZFOLDER = f.Z_PK: f.ZTITLE, NULL without a match.
FolderTitleOf(db, n) ==
    LET fs == {f \in db.folders : f.Z_PK = n.ZFOLDER}
    IN  IF fs = {} THEN NullV ELSE (CHOOSE f \in fs : TRUE).ZTITLE

\* LEFT JOIN ZICNOTEBODY nb ON n.Z_PK = nb.ZNOTE: one row per matching body
\* row, one row with a NULL body when there is none.
BodiesOf(db, n) ==
    LET bs == {b \in db.bodies : b.ZNOTE = n.Z_PK}
    IN  IF bs = {} THEN {NoBody} ELSE bs

\* The SELECT list.  body_pk tells the rows of one note apart; the code
\* never reads it.
JoinRow(db, n, b) ==
    [ note_id           |-> n.Z_PK,
      title             |-> n.ZTITLE,
      snippet           |-> n.ZSNIPPET,
      creation_date     |-> n.ZCREATIONDATE,
      modification_date |-> n.ZMODIFICATIONDATE,
      content_data      |-> b.ZDATA,
      folder_name       |-> FolderTitleOf(db, n),
      body_pk           |-> b.Z_PK ]

\* SQLite's LIKE: % matches any run of characters, _ any one character,
\* letters compare without regard to ASCII case.
RECURSIVE LikeFrom(_, _, _, _)
LikeFrom(p, i, s, j) ==
    IF i > Len(p) THEN j > Len(s)
    ELSE IF p[i] = "%" THEN \E k \in j..(Len(s) + 1) : LikeFrom(p, i + 1, s, k)
    ELSE /\ j <= Len(s)
         /\ (p[i] = "_" \/ Lower(p[i]) = Lower(s[j]))
         /\ LikeFrom(p, i + 1, s, j + 1)

Like(p, s) == LikeFrom(p, 1, s, 1)

\* f.ZTITLE LIKE '%{folder_filter}%'; NULL LIKE ... is not true.
FolderMatches(folder_name, folder_filter) ==
    /\ folder_name.t = "text"
    /\ Like(<<"%">> \o folder_filter \o <<"%">>, folder_name.v)

\* The WHERE clause of lines 164-169.
WhereRows(db, folder_filter) ==
    { JoinRow(db, n, b) : <<n, b>> \in
        { p \in db.notes \X (db.bodies \cup {NoBody}) :
            /\ p[2] \in BodiesOf(db, p[1])
            /\ p[1].ZMARKEDFORDELETION = 0
            /\ (Truthy(folder_filter) =>
                  FolderMatches(FolderTitleOf(db, p[1]), folder_filter.v)) } }

\* SQLite's ordering of values: NULL, then numbers, then text.
TsRank(ts) ==
    CASE ts.t = "null" -> 0 [] ts.t = "num" -> 1 [] ts.t = "huge" -> 2 [] ts.t = "text" -> 3

TsLess(a, b) ==
    \/ TsRank(a) < TsRank(b)
    \/ /\ a.t = "num" /\ b.t = "num"
       /\ (a.d < b.d \/ (a.d = b.d /\ a.s < b.s))

\* ORDER BY n.ZMODIFICATIONDATE DESC: every order of the rows in which no
\* row precedes one with a greater key (SQLite fixes no order among ties).
OrdersOf(J) ==
    LET n == Cardinality(J)
    IN  { o \in [1..n -> J] :
            /\ \A i, j \in 1..n : i # j => o[i] # o[j]
            /\ \A i, j \in 1..n :
                 i < j => ~TsLess(o[i].modification_date, o[j].modification_date) }

\* A variant that keeps one row more than asked for.
LimitOffByOne(o, max_count) ==
    IF max_count > 0 /\ max_count + 1 < Len(o) THEN SubSeq(o, 1, max_count + 1) ELSE o

\* LIMIT {max_count}, added only when max_count > 0.
Limit(o, max_count) ==
    IF max_count > 0 /\ max_count < Len(o) THEN SubSeq(o, 1, max_count) ELSE o

\* cursor.fetchall(): the possible results of the query.
QueryResults(db, folder_filter, max_count) ==
    { Limit(o, max_count) : o \in OrdersOf(WhereRows(db, folder_filter)) }

\* The f-string of line 169 puts the filter inside a quoted SQL literal: a
\* single quote in it ends the literal early and the statement does not parse.
QueryParses(folder_filter) ==
    ~Truthy(folder_filter) \/ \A k \in 1..Len(folder_filter.v) : folder_filter.v[k] # "'"

\* ------------------------------------------------------------------------
\* NotesReader.load_data: the body of the loop over rows (lines 181-233)
\* ------------------------------------------------------------------------
\* bytes.decode('utf-8', errors='ignore')
Decode(b) == SelectSeq(b, LAMBDA c : c # "0xFF")

\* Lines 190-199.  A str has no decode method: AttributeError, caught.
ExtractContent(content_data, snippet) ==
    IF ~Truthy(content_data) THEN <<>>
    ELSE IF content_data.t = "blob" THEN CleanHtmlContent(Decode(content_data.v))
    ELSE snippet

\* A variant without the fallback of lines 201-203.
ContentOfNoSnippetFallback(row) ==
    LET snippet == IF Truthy(row.snippet) THEN row.snippet.v ELSE <<>>
    IN  ExtractContent(row.content_data, snippet)

\* Lines 201-203.
ContentOf(row) ==
    LET snippet == IF Truthy(row.snippet) THEN row.snippet.v ELSE <<>>
        content == ExtractContent(row.content_data, snippet)
    IN  IF content = <<>> /\ snippet # <<>> THEN snippet ELSE content

TitleOf(row) ==
    IF Truthy(row.title) THEN row.title.v ELSE NotePrefix \o IntStr(row.note_id)

EmptyMap == [k \in {} |-> <<>>]

\* Lines 213-224.  A failing _format_timestamp propagates.
MetadataOf(row, rd, tz) ==
    LET cd == FormatTimestamp(row.creation_date, tz)
        md == FormatTimestamp(row.modification_date, tz)
        base == ("note_id" :> IntStr(row.note_id)) @@ ("title" :> TitleOf(row))
                  @@ ("source" :> SourceText)
        fold == IF rd.include_folders
                THEN "folder" :> (IF Truthy(row.folder_name)
                                  THEN row.folder_name.v ELSE DefaultFolder)
                ELSE EmptyMap
    IN  IF ~rd.include_metadata THEN Returns(base @@ fold)
        ELSE IF cd.exc # "" THEN Raises(cd.exc)
        ELSE IF md.exc # "" THEN Raises(md.exc)
        ELSE Returns(base @@ fold @@ ("creation_date" :> cd.val)
                       @@ ("modification_date" :> md.val))

\* One iteration: "skip" (continue), "doc" (a Document appended) or
\* "raise" (an exception leaves the loop).
ProcessRowOutcome(row, rd, tz) ==
    LET content == ContentOf(row)
        meta    == MetadataOf(row, rd, tz)
    IN  IF content = <<>> THEN [kind |-> "skip", exc |-> "", doc |-> <<>>]
        ELSE IF meta.exc # "" THEN [kind |-> "raise", exc |-> meta.exc, doc |-> <<>>]
        ELSE [ kind |-> "doc", exc |-> "",
               doc  |-> [ text     |-> TitlePrefix \o TitleOf(row) \o <<"\n", "\n">> \o content,
                          metadata |-> meta.val,
                          id_      |-> IdPrefix \o IntStr(row.note_id) ] ]

\* ------------------------------------------------------------------------
\* The file system and auto-detection
\* ------------------------------------------------------------------------
\* A path is a string; "None" stands for Python's None.
NoteStorePath == "~/Library/Group Containers/group.com.apple.notes/NoteStore.sqlite"
NotesV7Path   == "~/Library/Containers/com.apple.Notes/Data/Library/Notes/NotesV7.storedata"
NotesV1Path   == "~/Library/Group Containers/group.com.apple.notes/NotesV1.storedata"
ExplicitPath  == "/backup/NoteStore.sqlite"
OtherPath     == "/backup/old.sqlite"

Paths == {NoteStorePath, NotesV7Path, NotesV1Path, ExplicitPath, OtherPath}

\* What a path names: nothing ("absent"), a database with the Notes schema
\* ("notesdb"), a file without it ("otherfile"), or a directory ("dir").
FileKinds == {"absent", "notesdb", "otherfile", "dir"}

\* Path.exists()
Exists(files, p) == files[p] # "absent"

\* if notes_db_path: ... (None and "" are falsy)
PathGiven(p) == p # "None" /\ p # ""

\* NotesReader._find_notes_database
FindNotesDatabase(files) ==
    IF Exists(files, NoteStorePath) THEN NoteStorePath
    ELSE IF Exists(files, NotesV7Path) THEN NotesV7Path
    ELSE IF Exists(files, NotesV1Path) THEN NotesV1Path
    ELSE "None"

\* NotesRAG._find_notes_database
RagFindNotesDatabase(files) ==
    IF Exists(files, NoteStorePath) THEN NoteStorePath
    ELSE IF Exists(files, NotesV7Path) THEN NotesV7Path
    ELSE IF Exists(files, NotesV1Path) THEN NotesV1Path
    ELSE "None"

\* ------------------------------------------------------------------------
\* State
\* ------------------------------------------------------------------------
VARIABLES
    env,        \* what the program runs against: [db, files, tz, platform]
    reader,     \* the NotesReader: [include_folders, include_metadata]
    pc,         \* position of load_data: idle, connect, query, rows, returned, raised
    call,       \* arguments of load_data: [notes_db_path, max_count, folder_filter]
    db_path,    \* the resolved database path
    conn,       \* the sqlite3 connection: [state, mode]
    rows,       \* cursor.fetchall()
    idx,        \* index in rows of the next row of the loop
    documents,  \* the list being built
    outcome,    \* how load_data ended: [kind, exc]
    rag,        \* NotesRAG.load_data: [pc, args, result]
    cleanIn,    \* input of _clean_html_content called on its own
    cleanOut,   \* the results of one and of two applications
    cleanPc     \* number of applications made

vars == << env, reader, pc, call, db_path, conn, rows, idx, documents, outcome,
           rag, cleanIn, cleanOut, cleanPc >>

readerVars == << env, reader, pc, call, db_path, conn, rows, idx, documents, outcome, rag >>
cleanVars  == << cleanIn, cleanOut, cleanPc >>

NoCall == [notes_db_path |-> "None", max_count |-> -1, folder_filter |-> NullV]
NoConn == [state |-> "unbound", mode |-> ""]
NoOutcome == [kind |-> "none", exc |-> "", cause |-> ""]
NoRag == [pc |-> "none", args |-> [notes_db_path |-> "None", max_items |-> -1,
                                     folder_filter |-> NullV, include_folders |-> TRUE],
          result |-> "none", via |-> ""]

\* ------------------------------------------------------------------------
\* NotesReader.load_data
\* ------------------------------------------------------------------------
Raised(exc, cause) == [kind |-> "raise", exc |-> exc, cause |-> cause]

\* A variant that tests only whether a path was found, not whether it exists.
EnterLoadDataNoExistsCheck(a) ==
    LET p == IF PathGiven(a.notes_db_path)
             THEN a.notes_db_path
             ELSE FindNotesDatabase(env.files)
    IN  /\ call' = a
        /\ db_path' = p
        /\ documents' = <<>>
        /\ IF p = "None"
           THEN /\ pc' = "raised"
                /\ outcome' = Raised("FileNotFoundError", "not found")
           ELSE /\ pc' = "connect"
                /\ UNCHANGED outcome
        /\ UNCHANGED << conn, rows, idx >>

\* Lines 128-142: the arguments, the database path, the existence check.
EnterLoadData(a) ==
    LET p == IF PathGiven(a.notes_db_path)
             THEN a.notes_db_path
             ELSE FindNotesDatabase(env.files)
    IN  /\ call' = a
        /\ db_path' = p
        /\ documents' = <<>>
        /\ IF p = "None" \/ ~Exists(env.files, p)
           THEN /\ pc' = "raised"
                /\ outcome' = Raised("FileNotFoundError", "not found")
           ELSE /\ pc' = "connect"
                /\ UNCHANGED outcome
        /\ UNCHANGED << conn, rows, idx >>

\* A client calls reader.load_data(notes_db_path, max_count=..., folder_filter=...).
LoadData(path, max_count, folder_filter) ==
    /\ pc = "idle"
    /\ rag.pc = "none"
    /\ EnterLoadData([notes_db_path |-> path, max_count |-> max_count,
                      folder_filter |-> folder_filter])
    /\ UNCHANGED << env, reader, rag >>
    /\ UNCHANGED cleanVars

\* Lines 146-148: sqlite3.connect(str(db_path)) opens the file for reading
\* and writing; a directory cannot be opened (sqlite3.OperationalError,
\* re-raised by line 238).
Connect ==
    /\ pc = "connect"
    /\ IF env.files[db_path] = "dir"
       THEN /\ pc' = "raised"
            /\ outcome' = Raised("RuntimeError", "connect")
            /\ UNCHANGED conn
       ELSE /\ pc' = "query"
            /\ conn' = [state |-> "open", mode |-> "readwrite"]
            /\ UNCHANGED outcome
    /\ UNCHANGED << env, reader, call, db_path, rows, idx, documents, rag >>
    /\ UNCHANGED cleanVars

\* Lines 152-178: the query is built, executed and fetched.  A statement
\* that does not parse and a file without the tables raise sqlite3.Error,
\* re-raised by line 238.
ExecuteQuery ==
    /\ pc = "query"
    /\ IF env.files[db_path] # "notesdb" \/ ~QueryParses(call.folder_filter)
       THEN /\ pc' = "raised"
            /\ outcome' = Raised("RuntimeError", "query")
            /\ UNCHANGED << rows, idx >>
       ELSE /\ \E r \in QueryResults(env.db, call.folder_filter, call.max_count) :
                 rows' = r
            /\ idx' = 1
            /\ pc' = "rows"
            /\ UNCHANGED outcome
    /\ UNCHANGED << env, reader, call, db_path, conn, documents, rag >>
    /\ UNCHANGED cleanVars

\* Lines 180-233: one iteration of the loop.  An exception that leaves the
\* iteration is re-raised by line 240.
ProcessRow ==
    /\ pc = "rows"
    /\ idx <= Len(rows)
    /\ LET out == ProcessRowOutcome(rows[idx], reader, env.tz)
       IN  IF out.kind = "raise"
           THEN /\ pc' = "raised"
                /\ outcome' = Raised("RuntimeError", out.exc)
                /\ UNCHANGED << idx, documents >>
           ELSE /\ idx' = idx + 1
                /\ documents' = IF out.kind = "doc"
                                THEN Append(documents, out.doc)
                                ELSE documents
                /\ UNCHANGED << pc, outcome >>
    /\ UNCHANGED << env, reader, call, db_path, conn, rows, rag >>
    /\ UNCHANGED cleanVars

\* Lines 235 and 242: conn.close(), return documents.
CloseAndReturn ==
    /\ pc = "rows"
    /\ idx > Len(rows)
    /\ conn' = [conn EXCEPT !.state = "closed"]
    /\ pc' = "returned"
    /\ outcome' = [kind |-> "return", exc |-> "", cause |-> ""]
    /\ UNCHANGED << env, reader, call, db_path, rows, idx, documents, rag >>
    /\ UNCHANGED cleanVars

\* ------------------------------------------------------------------------
\* NotesRAG.load_data
\* ------------------------------------------------------------------------
RagDone(args, via) == rag' = [pc |-> "done", args |-> args, result |-> "[]", via |-> via]

\* Lines 89-152: the platform check, the path, the reader and its call.
RagLoadData(args) ==
    /\ pc = "idle"
    /\ rag.pc = "none"
    /\ IF env.platform # "darwin"
       THEN /\ RagDone(args, "platform")
            /\ UNCHANGED << reader, pc, call, db_path, conn, rows, idx, documents, outcome >>
       ELSE IF PathGiven(args.notes_db_path) /\ ~Exists(env.files, args.notes_db_path)
       THEN /\ RagDone(args, "path does not exist")
            /\ UNCHANGED << reader, pc, call, db_path, conn, rows, idx, documents, outcome >>
       ELSE LET p == IF PathGiven(args.notes_db_path)
                     THEN args.notes_db_path
                     ELSE RagFindNotesDatabase(env.files)
            IN  IF p = "None"
                THEN /\ RagDone(args, "not found")
                     /\ UNCHANGED << reader, pc, call, db_path, conn, rows, idx,
                                     documents, outcome >>
                ELSE /\ rag' = [pc |-> "reading", args |-> args, result |-> "none",
                                via |-> ""]
                     /\ reader' = [include_folders  |-> args.include_folders,
                                   include_metadata |-> TRUE]
                     /\ EnterLoadData(
                          [notes_db_path |-> p,
                           max_count     |-> IF args.max_items > 0
                                             THEN args.max_items ELSE -1,
                           folder_filter |-> IF Truthy(args.folder_filter)
                                             THEN args.folder_filter ELSE NullV])
    /\ UNCHANGED env
    /\ UNCHANGED cleanVars

\* Lines 154-191: what NotesRAG.load_data makes of the reader's result.
RagFinish ==
    /\ rag.pc = "reading"
    /\ pc \in {"returned", "raised"}
    /\ rag' = IF pc = "raised"
              THEN [rag EXCEPT !.pc = "done", !.result = "[]", !.via = outcome.exc]
              ELSE IF documents = <<>>
              THEN [rag EXCEPT !.pc = "done", !.result = "[]", !.via = "no documents"]
              ELSE [rag EXCEPT !.pc = "done", !.result = "chunks", !.via = "loaded"]
    /\ UNCHANGED << env, reader, pc, call, db_path, conn, rows, idx, documents, outcome >>
    /\ UNCHANGED cleanVars

\* ------------------------------------------------------------------------
\* The environments and arguments explored
\* ------------------------------------------------------------------------
WorkT  == <<"W", "o", "r", "k">>
LWorkT == <<"w", "o", "r", "k">>
HomeT  == <<"H", "o", "m", "e">>
TitleT == <<"T", "o", "d", "o">>
SnipT  == <<"s", "n", "i", "p">>

\* ZICFOLDER: a folder the filter "Work" names, one that differs from it in
\* case only, an unrelated one, and one without a title.
FoldersTable ==
    { [Z_PK |-> 1, ZTITLE |-> TextV(WorkT)],
      [Z_PK |-> 2, ZTITLE |-> TextV(LWorkT)],
      [Z_PK |-> 3, ZTITLE |-> TextV(HomeT)],
      [Z_PK |-> 4, ZTITLE |-> NullV] }

\* The contents of one note: its columns and the ZDATA of its body rows.
\* A modification date of AutoTs is replaced by a date that grows with the
\* primary key, so that the order of the query is determined.
AutoTs == [t |-> "auto", d |-> 0, s |-> 0]

Opt(title, snippet, cd, md, folder, del, bodies) ==
    [title |-> title, snippet |-> snippet, cd |-> cd, md |-> md,
     folder |-> folder, del |-> del, bodies |-> bodies]

\* Notes that differ in their folder.
FolderOptions ==
    { Opt(NullV, TextV(SnipT), NumTs(1, 0), AutoTs, f, 0, <<>>) : f \in 0..4 }

\* Notes that differ in modification date, in having text, and one deleted.
LimitOptions ==
    { Opt(TextV(TitleT), sn, NumTs(1, 0), NumTs(d, 0), 1, 0, <<>>) :
        sn \in {NullV, TextV(SnipT)}, d \in {100, 200} }
    \cup { Opt(TextV(TitleT), TextV(SnipT), NumTs(1, 0), NumTs(200, 0), 1, 1, <<>>) }

\* Notes that differ in their body rows and snippet: no body row, a body
\* with text, a body of markup without text, a body of bytes that are not
\* UTF-8, a body stored as TEXT, and two body rows for one note.
BodyOptions ==
    { Opt(TextV(TitleT), sn, NumTs(1, 0), AutoTs, 1, 0, bs) :
        sn \in {NullV, TextV(SnipT)},
        bs \in { <<>>, << BlobV(<<"h", "i">>) >>, << BlobV(<<"<", "p", ">">>) >> } }
    \cup { Opt(TextV(TitleT), TextV(SnipT), NumTs(1, 0), AutoTs, 1, 0,
               << TextV(<<"h", "i">>) >>),
           Opt(TextV(TitleT), NullV, NumTs(1, 0), AutoTs, 1, 0,
               << BlobV(<<"0xFF", "0xFF">>) >>),
           Opt(TextV(TitleT), NullV, NumTs(1, 0), AutoTs, 1, 0,
               << BlobV(<<"h", "i">>), BlobV(<<"<", "b", ">", "y", "o">>) >>) }

\* Notes that differ in their timestamps.
TimestampOptions ==
    { Opt(NullV, TextV(SnipT), cd, AutoTs, 0, 0, <<>>) :
        cd \in { NullTs, NumTs(0, 0), NumTs(1, 3600), NumTs(4000000, 0),
                 HugeTs, TextTs } }
    \cup { Opt(NullV, TextV(SnipT), NumTs(1, 0), NumTs(0, 0), 0, 0, <<>>) }

\* Primary key of the k-th note.
PkOf(k) == 7 * k

DbOf(a) ==
    [ notes   |-> { [ Z_PK               |-> PkOf(k),
                      ZTITLE             |-> a[k].title,
                      ZSNIPPET           |-> a[k].snippet,
                      ZCREATIONDATE      |-> a[k].cd,
                      ZMODIFICATIONDATE  |-> IF a[k].md = AutoTs
                                             THEN NumTs(100 + k, 0) ELSE a[k].md,
                      ZFOLDER            |-> a[k].folder,
                      ZMARKEDFORDELETION |-> a[k].del ] : k \in DOMAIN a },
      bodies  |-> { [ Z_PK  |-> 10 * p[1] + p[2],
                      ZNOTE |-> PkOf(p[1]),
                      ZDATA |-> a[p[1]].bodies[p[2]] ] :
                    p \in { q \in (DOMAIN a) \X (1..2) : q[2] <= Len(a[q[1]].bodies) } },
      folders |-> FoldersTable ]

\* Databases of up to MaxNotes notes drawn from one set of options.
DbsOf(options) == UNION { { DbOf(a) : a \in [1..n -> options] } : n \in 0..MaxNotes }

\* Only the path given explicitly is a Notes database.
DefaultFiles ==
    [p \in Paths |-> IF p = ExplicitPath THEN "notesdb" ELSE "absent"]

FileStates ==
    { DefaultFiles,
      [p \in Paths |-> "absent"],
      [p \in Paths |-> IF p \in {NoteStorePath, ExplicitPath} THEN "notesdb" ELSE "absent"],
      [p \in Paths |-> IF p = NotesV7Path THEN "notesdb" ELSE "absent"],
      [p \in Paths |-> IF p = NotesV1Path THEN "otherfile" ELSE "absent"],
      [p \in Paths |-> IF p = ExplicitPath THEN "otherfile" ELSE "absent"],
      [p \in Paths |-> IF p = ExplicitPath THEN "dir" ELSE "absent"] }

Platforms == {"darwin", "linux"}

\* UTC offsets of local time, in seconds.
TzOffsets == {0, -18000}

EnvOf(db, files, tz, platform) ==
    [db |-> db, files |-> files, tz |-> tz, platform |-> platform]

\* The databases are read in UTC; those of one note also west of it.
Envs ==
    { EnvOf(db, DefaultFiles, 0, "darwin") :
        db \in DbsOf(FolderOptions) \cup DbsOf(LimitOptions)
                 \cup DbsOf(BodyOptions) \cup DbsOf(TimestampOptions) }
    \cup { EnvOf(DbOf(<<o>>), DefaultFiles, tz, "darwin") :
             o \in TimestampOptions, tz \in TzOffsets }
    \cup { EnvOf(DbOf(<< Opt(NullV, TextV(SnipT), NumTs(1, 0), AutoTs, 1, 0, <<>>) >>),
                 files, 0, platform) :
             files \in FileStates, platform \in Platforms }

\* NotesReader(include_folders, include_metadata): the defaults, and a
\* reader that adds nothing to the metadata.
ReaderConfigs ==
    { [include_folders |-> TRUE, include_metadata |-> TRUE],
      [include_folders |-> FALSE, include_metadata |-> FALSE] }

\* The readers an environment is read with: both for a database of at most
\* one note, the default one for the larger databases.
ReadersOf(e) ==
    IF Cardinality(e.db.notes) <= 1
    THEN ReaderConfigs
    ELSE { [include_folders |-> TRUE, include_metadata |-> TRUE] }

\* Arguments of load_data.
PathArgs == {"None", "", ExplicitPath, OtherPath}
MaxCountArgs == {-1, 0, 1, 2}
FilterArgs ==
    { NullV, TextV(WorkT), TextV(<<"W", "_", "r", "k">>), TextV(<<"o", "'", "k">>) }

\* The argparse namespace of NotesRAG; --include-folders can only be True.
RagArgs ==
    { [notes_db_path |-> p, max_items |-> m, folder_filter |-> f, include_folders |-> TRUE] :
        p \in {"None", ExplicitPath, OtherPath}, m \in {-1, 1}, f \in {NullV, TextV(WorkT)} }

\* ------------------------------------------------------------------------
\* _clean_html_content on its own
\* ------------------------------------------------------------------------
\* Fragments of markup: character references (one encoding '&', so that
\* "&amp;" followed by "lt;" is a reference to a reference), block-level and
\* inline tags, their parts, and whitespace.
CleanPieces ==
    { <<"&", "a", "m", "p", ";">>, <<"&", "l", "t", ";">>, <<"l", "t", ";">>,
      <<"<", "p", ">">>, <<"<", "/", "P", ">">>, <<"<", "b">>, <<">">>,
      <<"\n">>, <<" ">>, <<"\t">>, <<"a">> }

RECURSIVE Concat(_)
Concat(ps) == IF ps = <<>> THEN <<>> ELSE Head(ps) \o Concat(Tail(ps))

CleanInputs ==
    UNION { { Concat(ps) : ps \in [1..n -> CleanPieces] } : n \in 0..MaxPieces }

NoClean == [once |-> <<>>, twice |-> <<>>]

CleanOnce ==
    /\ cleanPc = "start"
    /\ cleanOut' = [cleanOut EXCEPT !.once = CleanHtmlContent(cleanIn)]
    /\ cleanPc' = "once"
    /\ UNCHANGED cleanIn
    /\ UNCHANGED readerVars

CleanTwice ==
    /\ cleanPc = "once"
    /\ cleanOut' = [cleanOut EXCEPT !.twice = CleanHtmlContent(cleanOut.once)]
    /\ cleanPc' = "twice"
    /\ UNCHANGED cleanIn
    /\ UNCHANGED readerVars

\* ------------------------------------------------------------------------
\* Specifications
\* ------------------------------------------------------------------------
IdleReader ==
    /\ pc = "idle"
    /\ call = NoCall
    /\ db_path = "None"
    /\ conn = NoConn
    /\ rows = <<>>
    /\ idx = 0
    /\ documents = <<>>
    /\ outcome = NoOutcome
    /\ rag = NoRag

\* A reader, constructed, before load_data is called.
Init ==
    /\ env \in Envs
    /\ reader \in ReadersOf(env)
    /\ IdleReader
    /\ cleanIn = <<>>
    /\ cleanOut = NoClean
    /\ cleanPc = "unused"

Next ==
    \/ \E path \in PathArgs, max_count \in MaxCountArgs, folder_filter \in FilterArgs :
         LoadData(path, max_count, folder_filter)
    \/ \E args \in RagArgs : RagLoadData(args)
    \/ Connect
    \/ ExecuteQuery
    \/ ProcessRow
    \/ CloseAndReturn
    \/ RagFinish

Spec == Init /\ [][Next]_vars

\* _clean_html_content applied once and twice to each input.
InitClean ==
    /\ env = EnvOf(DbOf(<<>>), DefaultFiles, 0, "darwin")
    /\ reader = [include_folders |-> TRUE, include_metadata |-> TRUE]
    /\ IdleReader
    /\ cleanIn \in CleanInputs
    /\ cleanOut = NoClean
    /\ cleanPc = "start"

NextClean == CleanOnce \/ CleanTwice

SpecClean == InitClean /\ [][NextClean]_vars

\* ------------------------------------------------------------------------
\* Properties
\* ------------------------------------------------------------------------
\* s contains f as a substring, character for character.
Contains(s, f) ==
    \E i \in 1..(Len(s) - Len(f) + 1) : SubSeq(s, i, i + Len(f) - 1) = f

\* Reading a decimal number back: int(s).
DigitVal(c) == (CHOOSE k \in 1..10 : Digits[k] = c) - 1

RECURSIVE ParseNat(_, _)
ParseNat(s, acc) ==
    IF s = <<>> THEN acc ELSE ParseNat(Tail(s), acc * 10 + DigitVal(Head(s)))

ParseInt(s) ==
    IF s # <<>> /\ Head(s) = "-" THEN -ParseNat(Tail(s), 0) ELSE ParseNat(s, 0)

\* The note id an identifier parses back to.
DocNoteId(doc) == ParseInt(SubSeq(doc.id_, Len(IdPrefix) + 1, Len(doc.id_)))

NoteOfDoc(doc) == CHOOSE n \in env.db.notes : n.Z_PK = DocNoteId(doc)

\* The row has text to extract: a snippet, or a body of bytes that leaves
\* text once decoded and stripped of markup.
HasExtractableText(row) ==
    \/ Truthy(row.snippet)
    \/ /\ row.content_data.t = "blob"
       /\ CleanHtmlContent(Decode(row.content_data.v)) # <<>>

\* The rows among those already processed that have text, in order.
KeptRows == SelectSeq(SubSeq(rows, 1, idx - 1), HasExtractableText)

Finished == pc \in {"returned", "raised"}

\* C1: once the connection has been opened, it is closed on every exit path
\* of load_data, whether the call returns or raises.
C1_ConnectionClosedOnEveryExit ==
    (Finished /\ conn.state # "unbound") => conn.state = "closed"

\* C2: once the query has succeeded, no failure while processing a row
\* aborts the extraction: load_data raises only for a database that was not
\* found, could not be opened or could not be queried.
C2_RowFailureNeverAborts ==
    pc = "raised" => outcome.cause \in {"not found", "connect", "query"}

\* C3 (as stated): an explicit path that does not exist always ends in
\* FileNotFoundError and never in an empty list, for NotesReader.load_data
\* and for NotesRAG.load_data.
C3_MissingPathAlwaysRaises ==
    /\ ( /\ rag.pc = "none" /\ pc # "idle"
         /\ PathGiven(call.notes_db_path)
         /\ ~Exists(env.files, call.notes_db_path) )
       => (pc = "raised" /\ outcome.exc = "FileNotFoundError")
    /\ ( /\ rag.pc = "done"
         /\ PathGiven(rag.args.notes_db_path)
         /\ ~Exists(env.files, rag.args.notes_db_path) )
       => (rag.result # "[]" /\ outcome.exc = "FileNotFoundError")

\* C3 (amended): NotesReader.load_data called with a non-empty explicit path
\* that does not exist raises FileNotFoundError before it connects, and
\* returns no list; NotesRAG.load_data given such a path does not raise: it
\* returns an empty list without calling the reader.
C3_MissingPathReaderRaisesRagReturnsEmpty ==
    /\ ( /\ rag.pc = "none" /\ pc # "idle"
         /\ PathGiven(call.notes_db_path)
         /\ ~Exists(env.files, call.notes_db_path) )
       => ( /\ pc = "raised"
            /\ outcome.exc = "FileNotFoundError"
            /\ conn.state = "unbound" )
    /\ ( /\ rag.pc # "none"
         /\ PathGiven(rag.args.notes_db_path)
         /\ ~Exists(env.files, rag.args.notes_db_path) )
       => ( /\ rag.pc = "done"
            /\ rag.result = "[]"
            /\ pc = "idle" )

C3_Witness ==
    /\ rag.pc = "none"
    /\ pc = "raised"
    /\ call.notes_db_path = OtherPath
    /\ ~Exists(env.files, OtherPath)
    /\ outcome.exc = "FileNotFoundError"

\* C4 (as stated): a row yields exactly one record if its body or its
\* snippet is non-empty and none if both are empty, so the number of records
\* returned is the number of rows minus the rows with both empty.
C4_OneRecordPerNonEmptyRow ==
    pc = "returned" =>
        Len(documents) =
            Cardinality({ i \in 1..Len(rows) :
                            Truthy(rows[i].content_data) \/ Truthy(rows[i].snippet) })

\* C4 (amended): a row yields exactly one record if its snippet is non-empty
\* or its body, decoded and stripped of markup, is non-empty, and none
\* otherwise (a non-empty body that holds only markup or undecodable bytes,
\* or that is not a byte string, counts as empty).  The records of a call
\* that returns are those of the rows with text, in order, and each has
\* non-empty content after the "Title: ..." header.
C4_OneRecordPerRowWithText ==
    pc \in {"rows", "returned"} =>
        /\ pc = "returned" => idx = Len(rows) + 1
        /\ Len(documents) = Len(KeptRows)
        /\ \A k \in 1..Len(documents) :
             LET header == TitlePrefix \o TitleOf(KeptRows[k]) \o <<"\n", "\n">>
             IN  /\ documents[k].id_ = IdPrefix \o IntStr(KeptRows[k].note_id)
                 /\ Len(documents[k].text) > Len(header)
                 /\ SubSeq(documents[k].text, 1, Len(header)) = header

C4_Witness ==
    /\ pc = "returned"
    /\ Len(documents) >= 1
    /\ \E i \in 1..Len(rows) :
         /\ Truthy(rows[i].content_data)
         /\ ~HasExtractableText(rows[i])
    /\ \E i \in 1..Len(rows) :
         /\ ~Truthy(rows[i].content_data)
         /\ Truthy(rows[i].snippet)

\* The notes C5 calls eligible: not marked for deletion, matching the folder
\* filter if one is given, and having extractable text.
EligibleNotes ==
    { n \in env.db.notes :
        \E r \in WhereRows(env.db, call.folder_filter) :
            r.note_id = n.Z_PK /\ HasExtractableText(r) }

\* C5 (as stated): with max_count = k > 0 and at least k eligible notes,
\* load_data returns exactly k records, those of the k eligible notes
\* modified last, newest first.
C5_ExactlyKNewestEligible ==
    ( /\ pc = "returned"
      /\ call.max_count > 0
      /\ Cardinality(EligibleNotes) >= call.max_count )
    => /\ Len(documents) = call.max_count
       /\ \A k \in 1..Len(documents) : NoteOfDoc(documents[k]) \in EligibleNotes
       /\ \A k \in 1..Len(documents) : \A e \in EligibleNotes :
            (\A j \in 1..Len(documents) : NoteOfDoc(documents[j]) # e)
              => ~TsLess(NoteOfDoc(documents[k]).ZMODIFICATIONDATE, e.ZMODIFICATIONDATE)

\* C5 (amended): with max_count = k > 0, a call that returns has read the
\* first k rows of the query (all of them if there are fewer): rows not
\* marked for deletion and matching the folder filter, newest modification
\* first.  It returns the records of those of these rows that have text, in
\* that order: at most k records, and exactly k only if all k rows have
\* text.  Rows after the first k are not read in place of skipped ones.
C5_AtMostKFromNewestRows ==
    (pc = "returned" /\ call.max_count > 0) =>
        LET W == WhereRows(env.db, call.folder_filter)
            k == call.max_count
        IN  /\ Len(rows) = Min({k, Cardinality(W)})
            /\ \A i \in 1..Len(rows) : rows[i] \in W
            /\ \A i, j \in 1..Len(rows) : i # j => rows[i] # rows[j]
            /\ \A i, j \in 1..Len(rows) :
                 i < j => ~TsLess(rows[i].modification_date, rows[j].modification_date)
            /\ \A r \in W : (\A i \in 1..Len(rows) : rows[i] # r) =>
                 \A i \in 1..Len(rows) :
                    ~TsLess(rows[i].modification_date, r.modification_date)
            /\ Len(documents) <= k
            /\ Len(documents) = Len(KeptRows)
            /\ \A i \in 1..Len(documents) :
                 DocNoteId(documents[i]) = KeptRows[i].note_id
            /\ Len(documents) = k <=>
                 (Len(rows) = k /\ \A i \in 1..Len(rows) : HasExtractableText(rows[i]))

C5_Witness ==
    /\ pc = "returned"
    /\ call.max_count = 1
    /\ Cardinality(EligibleNotes) >= 1
    /\ Cardinality(WhereRows(env.db, call.folder_filter)) = 2
    /\ Len(rows) = 1
    /\ documents = <<>>

\* C6: with a non-empty folder_filter F, a record is returned for a note
\* only if the title of its folder contains F as a case-sensitive substring;
\* a note whose folder title is null, or that has no folder, yields none.
C6_FilterIsCaseSensitiveSubstring ==
    (pc \in {"rows", "returned"} /\ Truthy(call.folder_filter)) =>
        \A k \in 1..Len(documents) :
            LET title == FolderTitleOf(env.db, NoteOfDoc(documents[k]))
            IN  /\ title.t = "text"
                /\ Contains(title.v, call.folder_filter.v)

\* C7: in a returned list the identifiers are pairwise distinct, and each is
\* "note_" followed by the id of the note its record was built from.
C7_IdentifiersDistinct ==
    pc = "returned" =>
        /\ \A i, j \in 1..Len(documents) :
             i # j => documents[i].id_ # documents[j].id_
        /\ \A k \in 1..Len(documents) :
             /\ SubSeq(documents[k].id_, 1, Len(IdPrefix)) = IdPrefix
             /\ k <= Len(KeptRows) => DocNoteId(documents[k]) = KeptRows[k].note_id

\* C8: load_data opens the database file read-only; from connect to close
\* the connection never has write capability.
C8_ConnectionReadOnly ==
    conn.state # "unbound" => conn.mode = "readonly"

Epoch2001Text ==
    << "2", "0", "0", "1", "-", "0", "1", "-", "0", "1", " ",
       "0", "0", ":", "0", "0", ":", "0", "0" >>

\* C9: a record whose creation or modification timestamp is 0 carries
\* "2001-01-01 00:00:00", the value of _format_timestamp(0), in its metadata.
C9_ZeroTimestampIsEpoch ==
    (pc \in {"rows", "returned"} /\ reader.include_metadata) =>
        \A k \in 1..Len(documents) :
            k <= Len(KeptRows) =>
                /\ KeptRows[k].creation_date = NumTs(0, 0)
                     => documents[k].metadata["creation_date"] = Epoch2001Text
                /\ KeptRows[k].modification_date = NumTs(0, 0)
                     => documents[k].metadata["modification_date"] = Epoch2001Text

\* C10 (as stated): _clean_html_content is idempotent on every input.
C10_CleanIdempotent ==
    cleanPc = "twice" => cleanOut.twice = cleanOut.once

\* C10 (amended): clean(clean(s)) = clean(s) for every s whose cleaned text
\* holds no character reference that html.unescape would decode, which
\* includes every s without '&'.  When an entity of s encodes '&' (as in
\* "&amp;lt;"), each application decodes one more level.
C10_CleanIdempotentWithoutNestedReferences ==
    (cleanPc = "twice" /\ Unescape(cleanOut.once) = cleanOut.once)
        => cleanOut.twice = cleanOut.once

\* An input with a character reference and a tag whose cleaned text has
\* neither a tag nor a reference left to decode.
C10_Witness ==
    /\ cleanPc = "twice"
    /\ \E k \in 1..Len(cleanIn) : cleanIn[k] = "&"
    /\ \E k \in 1..Len(cleanIn) : cleanIn[k] = "<"
    /\ \A k \in 1..Len(cleanOut.once) : cleanOut.once[k] # "<"
    /\ Unescape(cleanOut.once) = cleanOut.once
    /\ cleanOut.once # <<>>
    /\ cleanOut.twice = cleanOut.once

\* A "YYYY-MM-DD HH:MM:SS" string.
IsDateText(s) ==
    /\ Len(s) = 19
    /\ \A k \in 1..19 :
         IF k \in {5, 8} THEN s[k] = "-"
         ELSE IF k = 11 THEN s[k] = " "
         ELSE IF k \in {14, 17} THEN s[k] = ":"
         ELSE \E j \in 1..10 : Digits[j] = s[k]

\* The raw values load_data has passed to _format_timestamp so far: the
\* creation and modification dates of the rows processed that have text,
\* and those of the row whose processing raised (its modification date only
\* if formatting its creation date returned).
FormatTimestampCalls ==
    IF ~reader.include_metadata \/ pc \notin {"rows", "returned", "raised"}
    THEN {}
    ELSE UNION { { rows[i].creation_date, rows[i].modification_date } :
                   i \in { j \in 1..Min({idx - 1, Len(rows)}) :
                             ContentOf(rows[j]) # <<>> } }
         \cup ( IF pc = "raised" /\ idx \in 1..Len(rows)
                THEN { rows[idx].creation_date }
                     \cup ( IF FormatTimestamp(rows[idx].creation_date, env.tz).exc = ""
                            THEN { rows[idx].modification_date } ELSE {} )
                ELSE {} )

\* C11: _format_timestamp never raises: for every raw value it is called
\* with it returns exactly "Unknown" when the value is falsy or absent, and
\* otherwise a "YYYY-MM-DD HH:MM:SS" string or the literal "Invalid Date".
C11_FormatTimestampNeverRaises ==
    \A ts \in FormatTimestampCalls :
        LET r     == FormatTimestamp(ts, env.tz)
            falsy == ts = NullTs \/ ts = NumTs(0, 0)
        IN  /\ r.exc = ""
            /\ falsy => r.val = UnknownText
            /\ ~falsy => (r.val = InvalidDateText \/ IsDateText(r.val))

====
